---- MODULE Spec2Model ----
(***************************************************************************)
(* A model of AutoTagger (autotagger.py): the session held by the main     *)
(* window (current target, the six tag fields, the cover bytes, the        *)
(* selected ID3 version), the MP3 files on disk, and one action per        *)
(* user-triggered handler.                                                 *)
(*                                                                         *)
(* Python values: None is the empty tuple and any other value v is <<v>>   *)
(* (so that None differs from the empty string and from empty bytes).      *)
(* A text is a tuple of one-character strings; bytes are a tuple of        *)
(* byte tokens.                                                            *)
(***************************************************************************)
EXTENDS Naturals, Sequences, FiniteSets, TLC

\* ------------------------------------------------------------------ bounds

\* Number of user-triggered handler runs in one session.
MaxOps == 3

\* Number of handler runs in a session of target picks, edits and cover
\* fetches.
MaxLookupOps == 4

\* Number of local paths carried by one drop event.
MaxDrop == 2

\* ------------------------------------------------------------ python values

None == <<>>

Some(v) == <<v>>

Val(o) == o[1]

\* ---------------------------------------------------------------- texts

Digits == {"0", "1", "2", "3", "4", "5", "6", "7", "8", "9"}

Whitespace == {" "}

Empty == <<>>

\* str.strip(): leading and trailing whitespace removed.
RECURSIVE LStrip(_)
LStrip(s) ==
    IF s # <<>> /\ Head(s) \in Whitespace THEN LStrip(Tail(s)) ELSE s

RECURSIVE RStrip(_)
RStrip(s) ==
    IF s # <<>> /\ s[Len(s)] \in Whitespace
    THEN RStrip(SubSeq(s, 1, Len(s) - 1))
    ELSE s

Strip(s) == RStrip(LStrip(s))

\* re.match(r'^(\d{4})', raw): the leading four digits, or no match (None).
YearMatch(raw) ==
    IF Len(raw) >= 4 /\ \A i \in 1..4 : raw[i] \in Digits
    THEN Some(SubSeq(raw, 1, 4))
    ELSE None

\* str.lower() on the characters that occur in the modelled names.
LowerChar(c) ==
    CASE c = "M" -> "m"
      [] c = "P" -> "p"
      [] c = "B" -> "b"
      [] OTHER -> c

Lower(s) == [i \in 1..Len(s) |-> LowerChar(s[i])]

EndsWith(s, suffix) ==
    /\ Len(s) >= Len(suffix)
    /\ SubSeq(s, Len(s) - Len(suffix) + 1, Len(s)) = suffix

DotMp3 == <<".", "m", "p", "3">>

\* p.lower().endswith('.mp3')
IsMp3Name(name) == EndsWith(Lower(name), DotMp3)

\* First index i with SubSeq(s, i, i + Len(sep) - 1) = sep, 0 when there is none.
RECURSIVE FindFrom(_, _, _)
FindFrom(s, sep, i) ==
    IF i + Len(sep) - 1 > Len(s) THEN 0
    ELSE IF SubSeq(s, i, i + Len(sep) - 1) = sep THEN i
    ELSE FindFrom(s, sep, i + 1)

\* Last index of character c in s, 0 when there is none.
RECURSIVE RFindChar(_, _, _)
RFindChar(s, c, i) ==
    IF i = 0 THEN 0
    ELSE IF s[i] = c THEN i
    ELSE RFindChar(s, c, i - 1)

\* ---------------------------------------------------------------- paths

\* A path is a directory name and an entry name; a top-level folder has
\* the empty directory name.
Path(dir, name) == [dir |-> dir, name |-> name]

FolderD == Path(<<>>, <<"d">>)

FolderE == Path(<<>>, <<"e">>)

NameXY == <<"x", " ", "-", " ", "y", ".", "m", "p", "3">>

NameB == <<"B", ".", "M", "P", "3">>

NameN == <<"n", ".", "t", "x", "t">>

\* os.listdir(folder): the entries of each folder, in listing order.
ListDir(folder) ==
    IF folder = FolderD THEN <<NameXY, NameB, NameN>> ELSE <<>>

\* os.path.join(folder, f)
Join(folder, f) == Path(folder.name, f)

\* os.path.dirname(p)
DirName(p) == Path(<<>>, p.dir)

\* os.path.basename(p)
BaseName(p) == p.name

\* os.path.splitext(name)[0]: the name up to its last dot (a leading dot
\* is part of the stem).
SplitExtStem(name) ==
    LET k == RFindChar(name, ".", Len(name))
    IN  IF k > 1 THEN SubSeq(name, 1, k - 1) ELSE name

Dirs == {FolderD, FolderE}

RECURSIVE SeqToSet(_)
SeqToSet(s) == IF s = <<>> THEN {} ELSE {Head(s)} \cup SeqToSet(Tail(s))

AllFiles == UNION {{Join(d, f) : f \in SeqToSet(ListDir(d))} : d \in Dirs}

AllPaths == AllFiles \cup Dirs

IsFile(p) == p \in AllFiles

IsDir(p) == p \in Dirs

\* ------------------------------------------------------- tags and files

\* The six managed text frames, in the order the handlers treat them, and
\* the window's line edit that holds each.
FrameIDs == <<"TPE1", "TALB", "TIT2", "TDRC", "TRCK", "TCON">>

FieldNames == <<"artist", "album", "title", "year", "track", "genre">>

FieldSet == SeqToSet(FieldNames)

FrameOf(f) ==
    CASE f = "artist" -> "TPE1"
      [] f = "album" -> "TALB"
      [] f = "title" -> "TIT2"
      [] f = "year" -> "TDRC"
      [] f = "track" -> "TRCK"
      [] f = "genre" -> "TCON"

\* GENRES[0], the text an editable combo box shows once its items are added.
Acoustic == <<"A", "c", "o", "u", "s", "t", "i", "c">>

PngSignature == <<"89", "P", "N", "G", "0D", "0A", "1A", "0A">>

PngBytes == PngSignature \o <<"00">>

JpegBytes == <<"FF", "D8", "FF">>

EmptyBytes == <<>>

\* bytes.startswith(prefix)
StartsWith(b, prefix) ==
    Len(b) >= Len(prefix) /\ SubSeq(b, 1, Len(prefix)) = prefix

\* An ID3 tag in memory: text frames by frame id (each a list of texts) and
\* picture frames by description (the hash key of a picture frame is
\* "APIC:" followed by its description).
NoTags == [frames |-> <<>>, apic |-> <<>>]

\* ID3.add(frame) for a text frame: replaces the frame of the same id.
AddFrame(tags, id, text) ==
    [tags EXCEPT !.frames =
        [k \in DOMAIN tags.frames \cup {id} |->
            IF k = id THEN <<text>> ELSE tags.frames[k]]]

\* ID3.add(APIC(...)): stored under "APIC:" + desc.
AddPicture(tags, desc, mime, data) ==
    [tags EXCEPT !.apic =
        [k \in DOMAIN tags.apic \cup {desc} |->
            IF k = desc THEN [mime |-> mime, data |-> data] ELSE tags.apic[k]]]

\* ID3.delall(id): every frame whose key is id or starts with id + ":".
DelAll(tags, id) ==
    IF id = "APIC"
    THEN [tags EXCEPT !.apic = <<>>]
    ELSE [tags EXCEPT !.frames =
            [k \in DOMAIN tags.frames \ {id} |-> tags.frames[k]]]

\* A file on disk: whether it is MPEG audio at all, whether it carries an
\* ID3 header, and the tag the header holds.
FileOf(audio, hdr, tags) == [audio |-> audio, hdr |-> hdr, tags |-> tags]

NotAudio == FileOf(FALSE, FALSE, NoTags)

NoHeader == FileOf(TRUE, FALSE, NoTags)

\* A fully tagged file, its picture stored with the empty description.
FullTags ==
    [frames |->
        [k \in SeqToSet(FrameIDs) |->
            CASE k = "TDRC" -> << <<"2", "0", "0", "3", "-", "0", "5">> >>
              [] k = "TRCK" -> << <<"1">> >>
              [] k = "TCON" -> <<Acoustic>>
              [] k = "TPE1" -> << <<"a">>, <<"b">> >>
              [] OTHER -> << <<"a">> >>],
     apic |-> [k \in {""} |-> [mime |-> "image/png", data |-> PngBytes]]]

\* A partly tagged file, its picture stored with the description "Cover".
PartTags ==
    [frames |-> [k \in {"TPE1", "TDRC"} |->
                    IF k = "TDRC" THEN << <<"c", "2", "0", "0", "3">> >>
                    ELSE << <<"b">> >>],
     apic |-> [k \in {"Cover"} |-> [mime |-> "image/jpeg", data |-> JpegBytes]]]

InitialDisks ==
    {[p \in AllFiles |->
        IF ~IsMp3Name(p.name) THEN NotAudio
        ELSE IF p.name = NameXY THEN a ELSE b] :
     a \in {FileOf(TRUE, TRUE, FullTags), NoHeader},
     b \in {FileOf(TRUE, TRUE, PartTags), NoHeader}}

\* ---------------------------------------------------------------- state

VARIABLES
    current_file,      \* None or Some(path)
    current_folder,    \* None or Some(path)
    fields,            \* the texts of the six edit widgets
    album_art_bytes,   \* None or Some(bytes)
    id3_version,       \* 1, 3 or 4
    btn_auto_fetch,    \* whether the auto-fetch button is enabled
    status_label,      \* the status line
    disk,              \* the files
    last,              \* what the last handler run did that the user can observe
    ops                \* handler runs so far

vars == <<current_file, current_folder, fields, album_art_bytes, id3_version,
          btn_auto_fetch, status_label, disk, last, ops>>

\* What one handler run does that can be observed: the target it selected
\* (None or Some(path)), the message boxes it opened, the HTTP requests it
\* issued, and for a Save the TagSet it read from the widgets, the files it
\* passed to _save_single_file, the files it printed as skipped and its
\* calls of audio.save().
Quiet(op) ==
    [op |-> op, target |-> None, dialogs |-> <<>>, requests |-> <<>>,
     tagset |-> None, attempts |-> <<>>, printed |-> <<>>, persisted |-> <<>>]

Reports(op, dialogs, requests) ==
    [Quiet(op) EXCEPT !.dialogs = dialogs, !.requests = requests]

Selected(op, path, dialogs) ==
    [Quiet(op) EXCEPT !.target = Some(path), !.dialogs = dialogs]

Saved(op, tagset, r) ==
    [Quiet(op) EXCEPT !.tagset = Some(tagset), !.dialogs = r.dialogs,
                      !.attempts = r.attempts, !.printed = r.printed,
                      !.persisted = r.persisted]

Dialog(kind, title) == [kind |-> kind, title |-> title]

\* The status line: which message, the file or folder name it names (None or
\* Some(name)) and the number of files it names.
Status(text, name, count) == [text |-> text, name |-> name, count |-> count]

EmptyFields == [f \in FieldSet |-> Empty]

Init ==
    /\ current_file = None
    /\ current_folder = None
    /\ fields = [EmptyFields EXCEPT !["genre"] = Acoustic]
    /\ album_art_bytes = None
    /\ id3_version = 3
    /\ btn_auto_fetch = FALSE
    /\ status_label = Status("Ready", None, 0)
    /\ disk \in InitialDisks
    /\ last = Quiet("__init__")
    /\ ops = 0

\* ------------------------------------------------------------- loading

\* get_tag(tag_key) inside load_tags: the first text of the frame, the year
\* cut to its leading four digits when it has them.
get_tag(tags, tag_key) ==
    IF tag_key \notin DOMAIN tags.frames \/ tags.frames[tag_key] = <<>>
    THEN Empty
    ELSE LET raw == tags.frames[tag_key][1]
             match == YearMatch(raw)
         IN  IF tag_key = "TDRC"
             THEN (IF match # None THEN Val(match) ELSE raw)
             ELSE raw

\* MP3(path, ID3=ID3) in load_tags: io is what the file system answers this
\* time ("ok" or "error"); a file that is not MPEG audio never opens.
CanOpen(d, path, io) == io = "ok" /\ d[path].audio

\* The cover load_tags finds: the picture stored under the key "APIC:",
\* that is the one with the empty description.
ReadCover(tags) ==
    IF "" \in DOMAIN tags.apic THEN Some(tags.apic[""].data) ELSE None

ReadFields(tags) == [f \in FieldSet |-> get_tag(tags, FrameOf(f))]

\* load_tags(): the widgets and cover bytes it leaves, and the dialogs it
\* opens, given the widgets and cover bytes it finds.
load_tags(cf, d, io, curFields, curArt) ==
    IF cf = None
    THEN [fields |-> curFields, art |-> curArt, dialogs |-> <<>>]
    ELSE IF ~CanOpen(d, Val(cf), io)
    THEN [fields |-> curFields, art |-> curArt,
          dialogs |-> <<Dialog("critical", "Error")>>]
    ELSE [fields |-> ReadFields(d[Val(cf)].tags),
          art |-> ReadCover(d[Val(cf)].tags),
          dialogs |-> <<>>]

\* clear_fields() without the reset of the cover bytes.
clear_fields_keeps_art ==
    /\ fields' = EmptyFields
    /\ UNCHANGED album_art_bytes

\* clear_fields()
clear_fields ==
    /\ fields' = EmptyFields
    /\ album_art_bytes' = None

\* load_single_file(path), called by the handler op.
load_single_file(op, path, io) ==
    LET r == load_tags(Some(path), disk, io, fields, album_art_bytes)
    IN  /\ current_file' = Some(path)
        /\ current_folder' = None
        /\ fields' = r.fields
        /\ album_art_bytes' = r.art
        /\ btn_auto_fetch' = TRUE
        /\ status_label' = Status("Loaded", Some(BaseName(path)), 0)
        /\ last' = Selected(op, path, r.dialogs)
        /\ UNCHANGED <<id3_version, disk>>

\* load_folder_path(path) without the reset of current_file.
load_folder_path_keeps_file(op, path) ==
    /\ current_folder' = Some(path)
    /\ UNCHANGED current_file
    /\ clear_fields
    /\ btn_auto_fetch' = FALSE
    /\ status_label' = Status("Folder", Some(BaseName(path)), 0)
    /\ last' = Selected(op, path, <<>>)
    /\ UNCHANGED <<id3_version, disk>>

\* load_folder_path(path), called by the handler op.
load_folder_path(op, path) ==
    /\ current_folder' = Some(path)
    /\ current_file' = None
    /\ clear_fields
    /\ btn_auto_fetch' = FALSE
    /\ status_label' = Status("Folder", Some(BaseName(path)), 0)
    /\ last' = Selected(op, path, <<>>)
    /\ UNCHANGED <<id3_version, disk>>

\* A handler that returns without touching the session.
Nothing(op) ==
    /\ last' = Quiet(op)
    /\ UNCHANGED <<current_file, current_folder, fields, album_art_bytes,
                   id3_version, btn_auto_fetch, status_label, disk>>

IOAnswers == {"ok", "error"}

\* load_file(): the file dialog returns a file, or nothing when cancelled.
load_file ==
    \E file_path \in {None} \cup {Some(p) : p \in AllFiles} :
        IF file_path # None
        THEN \E io \in IOAnswers :
                load_single_file("load_file", Val(file_path), io)
        ELSE Nothing("load_file")

\* load_folder(): the folder dialog returns a folder, or nothing.
load_folder ==
    \E folder_path \in {None} \cup {Some(p) : p \in Dirs} :
        IF folder_path # None
        THEN load_folder_path("load_folder", Val(folder_path))
        ELSE Nothing("load_folder")

\* Sequences over S of length at most n.
RECURSIVE SeqsUpTo(_, _)
SeqsUpTo(S, n) ==
    IF n = 0 THEN {<<>>}
    ELSE LET shorter == SeqsUpTo(S, n - 1)
         IN  shorter \cup {Append(q, x) : q \in shorter, x \in S}

IsMp3File(p) == IsFile(p) /\ IsMp3Name(p.name)

\* [p for p in paths if os.path.isfile(p) and p.lower().endswith('.mp3')]
RECURSIVE Mp3Only(_)
Mp3Only(paths) ==
    IF paths = <<>> THEN <<>>
    ELSE IF IsMp3File(Head(paths)) THEN <<Head(paths)>> \o Mp3Only(Tail(paths))
    ELSE Mp3Only(Tail(paths))

\* What dropEvent decides for the dropped local paths: the file to load,
\* the folder to load, or nothing.
DropDecision(paths) ==
    IF paths = <<>> THEN [load |-> "nothing"]
    ELSE IF Len(paths) = 1
    THEN LET path == paths[1]
         IN  IF IsMp3File(path) THEN [load |-> "file", path |-> path]
             ELSE IF IsDir(path) THEN [load |-> "folder", path |-> path]
             ELSE [load |-> "nothing"]
    ELSE LET mp3_files == Mp3Only(paths)
         IN  IF mp3_files # <<>>
             THEN [load |-> "folder", path |-> DirName(mp3_files[1])]
             ELSE \* the loop over paths finds the first MP3 file
                  LET again == Mp3Only(paths)
                  IN  IF again # <<>>
                      THEN [load |-> "file", path |-> again[1]]
                      ELSE [load |-> "nothing"]

\* dropEvent(event)
dropEvent ==
    \E paths \in SeqsUpTo(AllPaths, MaxDrop) :
        LET dec == DropDecision(paths)
        IN  IF dec.load = "file"
            THEN \E io \in IOAnswers :
                    load_single_file("dropEvent", dec.path, io)
            ELSE IF dec.load = "folder"
            THEN load_folder_path("dropEvent", dec.path)
            ELSE Nothing("dropEvent")

\* [1, 3, 4][index]
VersionAt(index) == <<1, 3, 4>>[index + 1]

\* on_id3_version_change(index)
on_id3_version_change ==
    \E index \in 0..2 :
        /\ id3_version' = VersionAt(index)
        /\ last' = Quiet("on_id3_version_change")
        /\ UNCHANGED <<current_file, current_folder, fields, album_art_bytes,
                       btn_auto_fetch, status_label, disk>>

\* The texts the user types into the edit widgets.
TypedValues(f) ==
    CASE f = "year" ->
            {Empty, <<"2", "0", "0", "3">>, <<"2", "0", "0", "3", "-", "0", "5">>,
             <<"c", "2", "0", "0", "3">>}
      [] f = "track" -> {Empty, <<"1">>}
      [] f = "genre" -> {Empty, Acoustic}
      [] OTHER -> {Empty, <<"a">>, <<" ">>}

\* The user edits one of the six widgets (QLineEdit, editable QComboBox).
user_edit ==
    \E f \in FieldSet : \E v \in TypedValues(f) :
        /\ fields' = [fields EXCEPT ![f] = v]
        /\ last' = Quiet("user_edit")
        /\ UNCHANGED <<current_file, current_folder, album_art_bytes,
                       id3_version, btn_auto_fetch, status_label, disk>>

\* ------------------------------------------------------------- lookups

Separator == <<" ", "-", " ">>

\* parse_filename(filepath): <<artist, title>>
parse_filename(filepath) ==
    LET basename == SplitExtStem(BaseName(filepath))
        k == FindFrom(basename, Separator, 1)
    IN  IF k # 0
        THEN <<Strip(SubSeq(basename, 1, k - 1)),
               Strip(SubSeq(basename, k + Len(Separator), Len(basename)))>>
        ELSE <<Empty, basename>>

\* x or y on texts
OrElse(x, y) == IF x # Empty THEN x ELSE y

\* What the recording search answers: a failure of the request or of the
\* decoding of its body, no recording, or the first recording.
Recording(credit, title, release) ==
    [kind |-> "recording", credit |-> credit, title |-> title, release |-> release]

Release(title, date) == [title |-> title, date |-> date]

RecordingAnswers ==
    {[kind |-> "exception"], [kind |-> "no_recordings"]} \cup
    {Recording(c, <<"t">>, r) :
        c \in {None, Some(<<"b">>)},
        r \in {None,
               Some(Release(None, Some(<<"2", "0", "0", "3", "-", "0", "5">>))),
               Some(Release(Some(<<"l">>), None)),
               Some(Release(Some(<<"l">>), Some(<<"c", "2", "0", "0", "3">>)))}}

\* The fields auto_fetch_info writes for the recording rec found for artist.
FetchedFields(rec, artist) ==
    LET new_artist == IF rec.credit # None THEN Val(rec.credit) ELSE artist
        has_release == rec.release # None
        release == Val(rec.release)
        new_album == IF has_release /\ release.title # None
                     THEN Val(release.title) ELSE fields["album"]
        year_match == IF has_release /\ release.date # None
                      THEN YearMatch(Val(release.date)) ELSE None
        new_year == IF year_match # None THEN Val(year_match) ELSE fields["year"]
    IN  [fields EXCEPT !["artist"] = new_artist,
                       !["album"] = new_album,
                       !["title"] = rec.title,
                       !["year"] = new_year,
                       !["track"] = fields["track"]]

\* A handler that only opens a dialog and issues the given requests.
OnlyReports(op, dialog, requests) ==
    /\ last' = Reports(op, <<dialog>>, requests)
    /\ UNCHANGED <<current_file, current_folder, fields, album_art_bytes,
                   id3_version, btn_auto_fetch, status_label, disk>>

\* auto_fetch_info()
auto_fetch_info ==
    \E answer \in RecordingAnswers :
        LET fn == parse_filename(Val(current_file))
            typed_artist == Strip(fields["artist"])
            typed_title == Strip(fields["title"])
            complete == typed_artist # Empty /\ typed_title # Empty
            artist == IF complete THEN typed_artist ELSE OrElse(typed_artist, fn[1])
            title == IF complete THEN typed_title ELSE OrElse(typed_title, fn[2])
        IN  IF current_file = None
            THEN Nothing("auto_fetch_info")
            ELSE IF artist = Empty \/ title = Empty
            THEN OnlyReports("auto_fetch_info",
                             Dialog("warning", "Not Enough Info"), <<>>)
            ELSE IF answer.kind = "exception"
            THEN OnlyReports("auto_fetch_info",
                             Dialog("critical", "Fetch Error"), <<"recording">>)
            ELSE IF answer.kind = "no_recordings"
            THEN OnlyReports("auto_fetch_info",
                             Dialog("information", "No Match"), <<"recording">>)
            ELSE /\ fields' = FetchedFields(answer, artist)
                 /\ status_label' = Status("Auto-fetched", None, 0)
                 /\ last' = Reports("auto_fetch_info", <<>>, <<"recording">>)
                 /\ UNCHANGED <<current_file, current_folder, album_art_bytes,
                                id3_version, btn_auto_fetch, disk>>

\* What the release search and the cover fetch answer.
Cover(status_code, content) ==
    [kind |-> "cover", status_code |-> status_code, content |-> content]

CoverAnswers ==
    {[kind |-> "search_exception"], [kind |-> "no_releases"],
     [kind |-> "cover_exception"]} \cup
    {Cover(200, c) : c \in {PngBytes, JpegBytes, EmptyBytes}} \cup
    {Cover(404, EmptyBytes)}

\* The folder test made on the wrong attribute.
InFolderMode_TestsFile == current_file # None

\* if self.current_folder:
InFolderMode == current_folder # None

\* fetch_album_art()
fetch_album_art ==
    \E answer \in CoverAnswers :
        LET artist == Strip(fields["artist"])
            album == Strip(fields["album"])
            op == "fetch_album_art"
        IN  IF InFolderMode
            THEN OnlyReports(op, Dialog("warning", "Folder Mode"), <<>>)
            ELSE IF artist = Empty \/ album = Empty
            THEN OnlyReports(op, Dialog("warning", "Missing Info"), <<>>)
            ELSE IF answer.kind = "search_exception"
            THEN OnlyReports(op, Dialog("critical", "Error"), <<"release">>)
            ELSE IF answer.kind = "no_releases"
            THEN OnlyReports(op, Dialog("information", "Not Found"), <<"release">>)
            ELSE IF answer.kind = "cover_exception"
            THEN OnlyReports(op, Dialog("critical", "Error"), <<"release", "cover">>)
            ELSE IF answer.status_code = 200
            THEN /\ album_art_bytes' = Some(answer.content)
                 /\ status_label' = Status("Album art fetched", None, 0)
                 /\ last' = Reports(op, <<>>, <<"release", "cover">>)
                 /\ UNCHANGED <<current_file, current_folder, fields,
                                id3_version, btn_auto_fetch, disk>>
            ELSE OnlyReports(op, Dialog("information", "No Art"),
                             <<"release", "cover">>)

\* ---------------------------------------------------------------- saving

\* The frame kinds _save_single_file clears, in its order.
ManagedKinds == <<"TPE1", "TALB", "TIT2", "TDRC", "TRCK", "TCON", "APIC">>

\* for tag in [...]: audio.tags.delall(tag)
RECURSIVE DelEach(_, _)
DelEach(tags, kinds) ==
    IF kinds = <<>> THEN tags ELSE DelEach(DelAll(tags, Head(kinds)), Tail(kinds))

\* A save that merges: nothing is deleted before the new frames are added.
ClearTags_Merge(tags) == tags

ClearTags(tags) == DelEach(tags, ManagedKinds)

\* if widget.text(): audio.tags.add(Frame(encoding=3, text=widget.text()))
AddIfSet(tags, f, T) ==
    IF T[f] # Empty THEN AddFrame(tags, FrameOf(f), T[f]) ELSE tags

RECURSIVE AddEach(_, _, _)
AddEach(tags, names, T) ==
    IF names = <<>> THEN tags
    ELSE AddEach(AddIfSet(tags, Head(names), T), Tail(names), T)

\* The mime type the picture frame is given.
MimeOf(bytes) ==
    IF StartsWith(bytes, PngSignature) THEN "image/png" ELSE "image/jpeg"

\* if self.album_art_bytes: audio.tags.add(APIC(..., desc='Cover', data=...))
AddCover(tags, art) ==
    IF art # None /\ Val(art) # EmptyBytes
    THEN AddPicture(tags, "Cover", MimeOf(Val(art)), Val(art))
    ELSE tags

\* The tag _save_single_file builds from the tag it opened.
NewTags(tags, T, art) == AddCover(AddEach(ClearTags(tags), FieldNames, T), art)

\* v1 = (1 if self.id3_version == 1 else 0)
V1Flag(version) == IF version = 1 THEN 1 ELSE 0

\* The selected version passed on as it is.
V2Version_AsSelected(version) == version

\* v2_version = self.id3_version if self.id3_version != 1 else 3
V2Version(version) == IF version # 1 THEN version ELSE 3

\* One call of audio.save(v1=..., v2_version=...) and how it ended.
\* opened is the tag the file carried when it was opened, tags the tag
\* handed to save.
Persist(path, v1, v2_version, opened, tags, ok) ==
    [path |-> path, v1 |-> v1, v2_version |-> v2_version, opened |-> opened,
     tags |-> tags, ok |-> ok]

\* What the file system answers one _save_single_file: the file opens and
\* saves, it does not open, or it opens and the save fails.
SaveAnswers == {"ok", "open_error", "save_error"}

\* The tag the opened file carries: the header's tag, or the empty tag that
\* add_tags() creates after ID3NoHeaderError.
OpenedTags(file) == IF file.hdr THEN file.tags ELSE NoTags

\* _save_single_file(filepath, suppress_reload) on the disk d: the disk,
\* widgets and cover bytes it leaves, and what it showed, printed and saved.
\* io answers the open and the save, rio the open of the reload.
_save_single_file(d, filepath, suppress_reload, io, rio) ==
    IF io = "open_error" \/ ~d[filepath].audio
    THEN [disk |-> d, fields |-> fields, art |-> album_art_bytes,
          dialogs |-> <<>>, attempts |-> <<filepath>>,
          printed |-> <<filepath>>, persisted |-> <<>>]
    ELSE LET opened == OpenedTags(d[filepath])
             tags == NewTags(opened, fields, album_art_bytes)
             ok == io = "ok"
             saved == IF ok THEN [d EXCEPT ![filepath] = FileOf(TRUE, TRUE, tags)]
                      ELSE d
             shown == IF ok THEN <<>> ELSE <<Dialog("critical", "Save Error")>>
             reload == IF ~suppress_reload /\ Some(filepath) = current_file
                       THEN load_tags(current_file, saved, rio, fields,
                                      album_art_bytes)
                       ELSE [fields |-> fields, art |-> album_art_bytes,
                             dialogs |-> <<>>]
         IN  [disk |-> saved, fields |-> reload.fields, art |-> reload.art,
              dialogs |-> shown \o reload.dialogs,
              attempts |-> <<filepath>>, printed |-> <<>>,
              persisted |-> <<Persist(filepath, V1Flag(id3_version),
                                      V2Version(id3_version), opened, tags, ok)>>]

\* [os.path.join(folder, f) for f in os.listdir(folder)
\*  if f.lower().endswith('.mp3')]
RECURSIVE Mp3Entries(_, _)
Mp3Entries(folder, names) ==
    IF names = <<>> THEN <<>>
    ELSE IF IsMp3Name(Head(names))
    THEN <<Join(folder, Head(names))>> \o Mp3Entries(folder, Tail(names))
    ELSE Mp3Entries(folder, Tail(names))

\* The loop that ends at the first file that is skipped or fails to save.
RECURSIVE save_each_stops(_, _, _, _)
save_each_stops(mp3_files, ios, i, acc) ==
    IF i > Len(mp3_files) THEN acc
    ELSE LET r == _save_single_file(acc.disk, mp3_files[i], TRUE, ios[i], "ok")
             next == [disk |-> r.disk, fields |-> r.fields, art |-> r.art,
                      dialogs |-> acc.dialogs \o r.dialogs,
                      attempts |-> acc.attempts \o r.attempts,
                      printed |-> acc.printed \o r.printed,
                      persisted |-> acc.persisted \o r.persisted]
         IN  IF ios[i] # "ok" THEN next
             ELSE save_each_stops(mp3_files, ios, i + 1, next)

\* for mp3 in mp3_files: self._save_single_file(mp3, suppress_reload=True)
\* ios[i] answers the i-th file; acc is what the files before it left.
RECURSIVE save_each(_, _, _, _)
save_each(mp3_files, ios, i, acc) ==
    IF i > Len(mp3_files) THEN acc
    ELSE LET r == _save_single_file(acc.disk, mp3_files[i], TRUE, ios[i], "ok")
         IN  save_each(mp3_files, ios, i + 1,
                       [disk |-> r.disk, fields |-> r.fields, art |-> r.art,
                        dialogs |-> acc.dialogs \o r.dialogs,
                        attempts |-> acc.attempts \o r.attempts,
                        printed |-> acc.printed \o r.printed,
                        persisted |-> acc.persisted \o r.persisted])

\* The TagSet a Save reads from the widgets.
TagSet(T, art) == [fields |-> T, cover |-> art]

\* save_tags()
save_tags ==
    IF current_file # None
    THEN \E io \in SaveAnswers, rio \in IOAnswers :
         LET r == _save_single_file(disk, Val(current_file), FALSE, io, rio)
         IN  /\ disk' = r.disk
             /\ fields' = r.fields
             /\ album_art_bytes' = r.art
             /\ status_label' = Status("Tags saved", None, 0)
             /\ last' = Saved("save_tags", TagSet(fields, album_art_bytes), r)
             /\ UNCHANGED <<current_file, current_folder, id3_version,
                            btn_auto_fetch>>
    ELSE IF current_folder # None
    THEN LET mp3_files == Mp3Entries(Val(current_folder),
                                     ListDir(Val(current_folder)))
         IN  IF mp3_files = <<>>
             THEN OnlyReports("save_tags", Dialog("warning", "No MP3s"), <<>>)
             ELSE \E ios \in [1..Len(mp3_files) -> SaveAnswers] :
                  LET r == save_each(mp3_files, ios, 1,
                               [disk |-> disk, fields |-> fields,
                                art |-> album_art_bytes, dialogs |-> <<>>,
                                attempts |-> <<>>, printed |-> <<>>,
                                persisted |-> <<>>])
                  IN  /\ disk' = r.disk
                      /\ fields' = r.fields
                      /\ album_art_bytes' = r.art
                      /\ status_label' = Status("Saved tags for files", None,
                                                Len(mp3_files))
                      /\ last' = Saved("save_tags",
                                       TagSet(fields, album_art_bytes), r)
                      /\ UNCHANGED <<current_file, current_folder,
                                     id3_version, btn_auto_fetch>>
    ELSE OnlyReports("save_tags", Dialog("warning", "No Target"), <<>>)

\* ------------------------------------------------------------ the program

\* One handler runs at a time, to completion; a session is max handler runs.
Run(max, handler) ==
    /\ ops < max
    /\ ops' = ops + 1
    /\ handler

Next ==
    \/ Run(MaxOps, load_file)
    \/ Run(MaxOps, load_folder)
    \/ Run(MaxOps, dropEvent)
    \/ Run(MaxOps, on_id3_version_change)
    \/ Run(MaxOps, user_edit)
    \/ Run(MaxOps, auto_fetch_info)
    \/ Run(MaxOps, fetch_album_art)
    \/ Run(MaxOps, save_tags)

Spec == Init /\ [][Next]_vars

\* The sessions that only pick targets, edit the widgets and fetch covers.
LookupNext ==
    \/ Run(MaxLookupOps, load_file)
    \/ Run(MaxLookupOps, load_folder)
    \/ Run(MaxLookupOps, user_edit)
    \/ Run(MaxLookupOps, fetch_album_art)

LookupSpec == Init /\ [][LookupNext]_vars

\* ------------------------------------------------------------- properties

LoadOps == {"load_file", "load_folder", "dropEvent"}

RanSave == last.op = "save_tags" /\ last.tagset # None

RanBatch == RanSave /\ current_folder # None

\* The calls of audio.save() of the last handler run.
Calls == {last.persisted[i] : i \in 1..Len(last.persisted)}

NonEmptyFields(T) == {f \in FieldSet : T.fields[f] # Empty}

\* The file holds, of the six managed text frames, exactly one single-valued
\* frame per non-empty field of T, with that field's text.
HoldsFieldsOf(file, T) ==
    /\ DOMAIN file.tags.frames = {FrameOf(f) : f \in NonEmptyFields(T)}
    /\ \A f \in NonEmptyFields(T) : file.tags.frames[FrameOf(f)] = <<T.fields[f]>>

\* C1: the session never has both a current file and a current folder.
C1_AtMostOneTarget == ~(current_file # None /\ current_folder # None)

\* A folder was selected by a drop after two earlier handler runs.
C1_Witness ==
    /\ last.op = "dropEvent"
    /\ last.target # None
    /\ current_folder = last.target
    /\ current_file = None
    /\ ops = MaxOps

\* C2: the tag a Save hands to audio.save(), and the file once the save
\* succeeded, hold of the managed text frames exactly the non-empty fields of
\* the TagSet the Save read: an empty field has no frame, whatever the file
\* held before.
C2_FullReplace ==
    RanSave =>
        \A c \in Calls :
            /\ HoldsFieldsOf([tags |-> c.tags], Val(last.tagset))
            /\ c.ok => HoldsFieldsOf(disk[c.path], Val(last.tagset))

\* A Save wrote a file that held a frame for a field the TagSet leaves empty,
\* and wrote a frame for another field.
C2_Witness ==
    /\ RanSave
    /\ \E c \in Calls :
        /\ c.ok
        /\ NonEmptyFields(Val(last.tagset)) # {}
        /\ \E f \in FieldSet \ NonEmptyFields(Val(last.tagset)) :
            /\ FrameOf(f) \in DOMAIN c.opened.frames
            /\ FrameOf(f) \notin DOMAIN disk[c.path].tags.frames

\* The year as Read returns it.
NormalYear(year) == IF YearMatch(year) # None THEN Val(YearMatch(year)) ELSE year

HasNoEmptyField(T) ==
    /\ NonEmptyFields(T) = FieldSet
    /\ T.cover # None
    /\ Val(T.cover) # EmptyBytes

\* C3: a Save of a TagSet with no empty field (cover included) to the current
\* file, followed by the read of that file, yields the same TagSet with the
\* year cut to its leading four digits; the cover bytes read are the cover
\* bytes written.
C3_RoundTrip ==
    (/\ RanSave
     /\ current_file # None
     /\ HasNoEmptyField(Val(last.tagset))
     /\ \A c \in Calls : c.ok
     /\ last.printed = <<>>
     /\ last.dialogs = <<>>)
    => /\ fields = [Val(last.tagset).fields EXCEPT
                        !["year"] = NormalYear(Val(last.tagset).fields["year"])]
       /\ album_art_bytes = Val(last.tagset).cover

\* The MP3 files of the current folder, in listing order.
BatchFiles == Mp3Entries(Val(current_folder), ListDir(Val(current_folder)))

Printed == {last.printed[i] : i \in 1..Len(last.printed)}

Failures == Len(last.printed) + Cardinality({c \in Calls : ~c.ok})

\* C5: at the end of a folder Save over N files of which F failed, the
\* status line reports N - F files saved, and no failure was reported by a
\* dialog of its own.
C5_BatchSummary ==
    RanBatch =>
        /\ status_label.count = Len(BatchFiles) - Failures
        /\ last.dialogs = <<>>

\* C6: in folder mode fetch_album_art ends with the "Folder Mode" warning,
\* issues no request and leaves the fields, the cover bytes and the files
\* as they are.
C6_NoFetchInFolderMode ==
    [][(current_folder # None /\ last'.op = "fetch_album_art" /\ ops' = ops + 1)
        => /\ last'.dialogs = <<Dialog("warning", "Folder Mode")>>
           /\ last'.requests = <<>>
           /\ UNCHANGED <<fields, album_art_bytes, disk, current_folder,
                          current_file>>]_vars

\* fetch_album_art ran in folder mode with an artist and an album typed in.
C6_Witness ==
    /\ current_folder # None
    /\ last.op = "fetch_album_art"
    /\ Strip(fields["artist"]) # Empty
    /\ Strip(fields["album"]) # Empty

\* C7: a handler that selects another target while the widgets hold the tags
\* loaded from the current file leaves in the widgets and the cover bytes
\* only what the new target gives: the tags read from the new file, nothing
\* for a folder and nothing for a file that cannot be read. No value loaded
\* under the previous target survives the switch.
C7_SwitchDiscards ==
    [][(/\ ops' = ops + 1
        /\ last'.op \in LoadOps
        /\ last'.target # None
        /\ current_file # None
        /\ last'.target # current_file
        /\ fields = ReadFields(disk[Val(current_file)].tags)
        /\ fields # EmptyFields)
        => IF current_file' # None /\ last'.dialogs = <<>>
           THEN /\ fields' = ReadFields(disk[Val(current_file')].tags)
                /\ album_art_bytes' = ReadCover(disk[Val(current_file')].tags)
           ELSE /\ fields' = EmptyFields
                /\ album_art_bytes' = None]_vars

\* C8: every failure of a Save to open or to save a file is reported in the
\* window: by a critical dialog.
C8_FailuresReported ==
    (RanSave /\ Failures > 0) => \E i \in 1..Len(last.dialogs) :
                                    last.dialogs[i].kind = "critical"

\* C9: every call of audio.save() gets v1 = 1 exactly when ID3v1 is selected
\* and v2_version 4 when ID3v2.4 is selected, 3 otherwise.
C9_PersistVersions ==
    /\ id3_version \in {1, 3, 4}
    /\ RanSave =>
        \A c \in Calls :
            /\ c.v1 = 1 <=> id3_version = 1
            /\ c.v1 \in {0, 1}
            /\ c.v2_version \in {3, 4}
            /\ c.v2_version = 4 <=> id3_version = 4

\* A Save with ID3v1 selected called audio.save(v1=1, v2_version=3).
C9_Witness ==
    /\ RanSave
    /\ id3_version = 1
    /\ \E c \in Calls : c.v1 = 1 /\ c.v2_version = 3 /\ c.ok

\* C10: while a folder is the target the session holds no cover bytes; a
\* folder Save hands no picture frame to audio.save() and every file it
\* writes is left without picture.
C10_NoCoverInFolderMode ==
    /\ current_folder # None => album_art_bytes = None
    /\ RanBatch =>
        \A c \in Calls :
            /\ c.tags.apic = <<>>
            /\ c.ok => disk[c.path].tags.apic = <<>>

\* A folder Save wrote a file that carried a picture.
C10_Witness ==
    /\ RanBatch
    /\ \E c \in Calls : c.ok /\ c.opened.apic # <<>>

====
